---- MODULE Spec2Model ----
(***************************************************************************)
(* Model of lis2mdl_STdC/example/lis2mdl_hard_iron.c: the hard-iron        *)
(* example routine lis2mdl_hard_iron and its platform shims                *)
(* (platform_write, platform_read, tx_com, platform_delay, platform_init). *)
(*                                                                         *)
(* The routine is one sequential thread; pc is its position.  Every driver *)
(* call of the routine is one action.  The sensor and the HAL are the      *)
(* environment: the bytes a bus read delivers and the status of every HAL  *)
(* transaction are chosen nondeterministically.                            *)
(***************************************************************************)
EXTENDS Integers, Sequences, FiniteSets, TLC

VARIABLES
  board,                \* the board macro of the build (lines 50-51)
  pc,                   \* position in lis2mdl_hard_iron
  whoamI, rst,          \* static uint8_t whoamI, rst (line 98)
  reg,                  \* uint8_t reg of the poll loop (line 193)
  data_raw_magnetic,    \* u8bit[6] of the union (line 94)
  data_raw_temperature, \* u8bit[2] of the union (line 95)
  magnetic_mG,          \* float magnetic_mG[3], in units of 1/2 mG
  temperature_degC,     \* float temperature_degC, in units of 1/8 degC
  tx_buffer,            \* the line sprintf left in tx_buffer
  sent,                 \* what the last tx_com handed to the UART / USB
  pwm,                  \* TIM3->CCR1 / CCR2 (platform_init)
  elapsed_ms,           \* total time spent in HAL_Delay
  ret,                  \* value returned by the last driver call (discarded)
  bus,                  \* HAL transactions issued by the last step
  calls,                \* setup calls in order (repeated reset_get collapsed)
  iter,                 \* steps of the current poll-loop iteration
  rstReads,             \* number of lis2mdl_reset_get calls (saturating)
  hal_failed            \* a configuration write's HAL transaction failed

vars == <<board, pc, whoamI, rst, reg, data_raw_magnetic, data_raw_temperature,
          magnetic_mG, temperature_degC, tx_buffer, sent, pwm, elapsed_ms,
          ret, bus, calls, iter, rstReads, hal_failed>>

(***************************************************************************)
(* Bounds of the model.                                                    *)
(***************************************************************************)
MaxRstCount == 2        \* rstReads saturates here

(***************************************************************************)
(* Program constants.                                                      *)
(***************************************************************************)
BOOT_TIME == 20
PWM_3V3 == 915
INIT_DELAY == 1000
WRITE_MULTI_I2C == 128
WRITE_MULTI_SPI == 64
READ_MULTI_I2C == 128
READ_MULTI_SPI == 192

\* lis2mdl_reg.h
LIS2MDL_ID == 64
LIS2MDL_OFFSET_X_REG_L == 69
LIS2MDL_WHO_AM_I == 79
LIS2MDL_CFG_REG_A == 96
LIS2MDL_CFG_REG_B == 97
LIS2MDL_CFG_REG_C == 98
LIS2MDL_STATUS_REG == 103
LIS2MDL_OUTX_L_REG == 104
LIS2MDL_TEMP_OUT_L_REG == 110

Boards == {"NUCLEO_F411RE", "STEVAL_MKI109V3"}
Handles == {"hi2c1", "hspi2", "other"}
HalStatus == {"HAL_OK", "HAL_ERROR", "HAL_TIMEOUT"}

\* values the environment delivers
RawBytes == {0, 255}
WhoAmIValues == {0, LIS2MDL_ID, 65}
FlagValues == {0, 1}

mag_offset == <<0, 245, 0, 248, 0, 244>>

SENSOR_BUS(b) == IF b = "STEVAL_MKI109V3" THEN "hspi2" ELSE "hi2c1"

(***************************************************************************)
(* Byte arithmetic.                                                        *)
(***************************************************************************)
RECURSIVE OrBits(_, _, _)
OrBits(a, b, n) ==
  IF n = 0 THEN 0
  ELSE (IF a % 2 = 1 \/ b % 2 = 1 THEN 1 ELSE 0)
       + 2 * OrBits(a \div 2, b \div 2, n - 1)

Or8(a, b) == OrBits(a % 256, b % 256, 8)

\* int16_t seen through the union: little endian, two's complement
I16(lo, hi) ==
  LET u == lo + 256 * hi IN IF u >= 32768 THEN u - 65536 ELSE u

Zeros(n) == [i \in 1..n |-> 0]
Buffers(n) == [1..n -> RawBytes]

(***************************************************************************)
(* Platform shims.                                                         *)
(***************************************************************************)
\* variant: the HAL status is passed on to the caller
platform_write_status(b, handle, r, len, st) ==
  [ret  |-> IF st = "HAL_OK" THEN 0 ELSE 1,
   xfer |-> IF handle = "hi2c1"
            THEN <<[dir |-> "write", on |-> "i2c",
                    reg |-> Or8(r, WRITE_MULTI_I2C), len |-> len, status |-> st]>>
            ELSE IF b = "STEVAL_MKI109V3" /\ handle = "hspi2"
            THEN <<[dir |-> "write", on |-> "spi",
                    reg |-> Or8(r, WRITE_MULTI_SPI), len |-> len, status |-> st]>>
            ELSE << >>]

platform_write(b, handle, r, len, st) ==
  [ret  |-> 0,
   xfer |-> IF handle = "hi2c1"
            THEN <<[dir |-> "write", on |-> "i2c",
                    reg |-> Or8(r, WRITE_MULTI_I2C), len |-> len, status |-> st]>>
            ELSE IF b = "STEVAL_MKI109V3" /\ handle = "hspi2"
            THEN <<[dir |-> "write", on |-> "spi",
                    reg |-> Or8(r, WRITE_MULTI_SPI), len |-> len, status |-> st]>>
            ELSE << >>]

platform_read(b, handle, r, len, st) ==
  [ret  |-> 0,
   xfer |-> IF handle = "hi2c1"
            THEN <<[dir |-> "read", on |-> "i2c",
                    reg |-> Or8(r, READ_MULTI_I2C), len |-> len, status |-> st]>>
            ELSE IF b = "STEVAL_MKI109V3" /\ handle = "hspi2"
            THEN <<[dir |-> "read", on |-> "spi",
                    reg |-> Or8(r, READ_MULTI_SPI), len |-> len, status |-> st]>>
            ELSE << >>]

tx_com(b, buffer) ==
  [via  |-> IF b = "NUCLEO_F411RE" THEN "huart2" ELSE "usb_cdc",
   line |-> buffer]

(***************************************************************************)
(* Driver calls (lis2mdl_reg.c): the bus transactions each one issues.     *)
(***************************************************************************)
\* dev_ctx as lis2mdl_hard_iron fills it (lines 142-144): the driver reaches
\* the bus through ctx->read_reg / ctx->write_reg with ctx->handle
lis2mdl_read_reg(b, r, len, st) == platform_read(b, SENSOR_BUS(b), r, len, st)
lis2mdl_write_reg(b, r, len, st) == platform_write(b, SENSOR_BUS(b), r, len, st)

\* a setter: read the register, set one field, write it back
ReadModifyWrite(b, r, s1, s2) ==
  LET rd == lis2mdl_read_reg(b, r, 1, s1) IN
  IF rd.ret = 0
  THEN LET wr == lis2mdl_write_reg(b, r, 1, s2) IN
       [ret |-> wr.ret, xfer |-> rd.xfer \o wr.xfer]
  ELSE [ret |-> rd.ret, xfer |-> rd.xfer]

\* the register each setter rewrites
SetterRegister(name) ==
  CASE name = "lis2mdl_spi_mode_set" -> LIS2MDL_CFG_REG_C
    [] name = "lis2mdl_reset_set" -> LIS2MDL_CFG_REG_A
    [] name = "lis2mdl_block_data_update_set" -> LIS2MDL_CFG_REG_C
    [] name = "lis2mdl_data_rate_set" -> LIS2MDL_CFG_REG_A
    [] name = "lis2mdl_set_rst_mode_set" -> LIS2MDL_CFG_REG_B
    [] name = "lis2mdl_offset_temp_comp_set" -> LIS2MDL_CFG_REG_A
    [] name = "lis2mdl_operating_mode_set" -> LIS2MDL_CFG_REG_A

lis2mdl_device_id_get(b, st) == lis2mdl_read_reg(b, LIS2MDL_WHO_AM_I, 1, st)
lis2mdl_reset_get(b, st) == lis2mdl_read_reg(b, LIS2MDL_CFG_REG_A, 1, st)
lis2mdl_mag_data_ready_get(b, st) == lis2mdl_read_reg(b, LIS2MDL_STATUS_REG, 1, st)
lis2mdl_magnetic_raw_get(b, st) == lis2mdl_read_reg(b, LIS2MDL_OUTX_L_REG, 6, st)
lis2mdl_temperature_raw_get(b, st) ==
  lis2mdl_read_reg(b, LIS2MDL_TEMP_OUT_L_REG, 2, st)
lis2mdl_mag_user_offset_set(b, buff, st) ==
  lis2mdl_write_reg(b, LIS2MDL_OFFSET_X_REG_L, Len(buff), st)

lis2mdl_from_lsb_to_mgauss(lsb) == lsb * 3        \* lsb * 1.5f, in 1/2 mG
lis2mdl_from_lsb_to_celsius(lsb) == lsb + 200     \* lsb / 8.0f + 25.0f, in 1/8 degC

\* "%4.2f" of a value given in 1/2 mG, in hundredths
Format2_half(h) == h * 50
\* "%6.2f" of a value given in 1/8 degC, in hundredths (ties to even)
Format2_eighth(e) ==
  LET n == e * 25
      q == n \div 2
  IN IF n % 2 = 0 THEN q ELSE IF q % 2 = 0 THEN q ELSE q + 1

sprintf_magnetic(m) ==
  [text |-> "Magnetic field [mG]:",
   val  |-> <<Format2_half(m[1]), Format2_half(m[2]), Format2_half(m[3])>>]

sprintf_temperature(t) ==
  [text |-> "Temperature [degC]:", val |-> <<Format2_eighth(t)>>]

NoLine == [text |-> "", val |-> << >>]
NoTx == [via |-> "", line |-> NoLine]

(***************************************************************************)
(* Bookkeeping of the observed calls.                                      *)
(***************************************************************************)
Call(name, arg) == <<name, arg>>

WriteFailed(xfer) ==
  \E i \in 1..Len(xfer) : xfer[i].dir = "write" /\ xfer[i].status # "HAL_OK"

Bump(n) == IF n < MaxRstCount THEN n + 1 ELSE n

(***************************************************************************)
(* Initial state: statics are zero, nothing has been called.               *)
(***************************************************************************)
Init ==
  /\ board \in Boards
  /\ pc = "platform_init"
  /\ whoamI = 0
  /\ rst = 0
  /\ reg = 0
  /\ data_raw_magnetic = Zeros(6)
  /\ data_raw_temperature = Zeros(2)
  /\ magnetic_mG = <<0, 0, 0>>
  /\ temperature_degC = 0
  /\ tx_buffer = NoLine
  /\ sent = NoTx
  /\ pwm = 0
  /\ elapsed_ms = 0
  /\ ret = 0
  /\ bus = << >>
  /\ calls = << >>
  /\ iter = << >>
  /\ rstReads = 0
  /\ hal_failed = FALSE

data == <<whoamI, rst, reg, data_raw_magnetic, data_raw_temperature,
          magnetic_mG, temperature_degC, tx_buffer, sent>>
poll_data == <<data_raw_magnetic, data_raw_temperature, magnetic_mG,
               temperature_degC, tx_buffer, sent>>

(***************************************************************************)
(* lis2mdl_hard_iron, statement by statement.                              *)
(***************************************************************************)
\* variant: the boot wait is left out
PlatformInit_noBootWait ==
  /\ pc = "platform_init"
  /\ pc' = IF board = "STEVAL_MKI109V3" THEN "spi_mode_set" ELSE "device_id_get"
  /\ pwm' = IF board = "STEVAL_MKI109V3" THEN PWM_3V3 ELSE pwm
  /\ elapsed_ms' = IF board = "STEVAL_MKI109V3"
                   THEN elapsed_ms + INIT_DELAY ELSE elapsed_ms
  /\ calls' = Append(calls, Call("platform_init", ""))
  /\ bus' = << >>
  /\ UNCHANGED <<board, data, ret, iter, rstReads, hal_failed>>

\* line 147 (and platform_init, lines 321-330)
PlatformInit ==
  /\ pc = "platform_init"
  /\ pc' = "platform_delay"
  /\ pwm' = IF board = "STEVAL_MKI109V3" THEN PWM_3V3 ELSE pwm
  /\ elapsed_ms' = IF board = "STEVAL_MKI109V3"
                   THEN elapsed_ms + INIT_DELAY ELSE elapsed_ms
  /\ calls' = Append(calls, Call("platform_init", ""))
  /\ bus' = << >>
  /\ UNCHANGED <<board, data, ret, iter, rstReads, hal_failed>>

\* line 150 (and platform_delay, lines 313-316)
PlatformDelay ==
  /\ pc = "platform_delay"
  /\ pc' = IF board = "STEVAL_MKI109V3" THEN "spi_mode_set" ELSE "device_id_get"
  /\ elapsed_ms' = elapsed_ms + BOOT_TIME
  /\ calls' = Append(calls, Call("platform_delay", "BOOT_TIME"))
  /\ bus' = << >>
  /\ UNCHANGED <<board, data, pwm, ret, iter, rstReads, hal_failed>>

\* a call of a driver setter
ConfigSet(at, name, arg, next) ==
  /\ pc = at
  /\ \E s1 \in HalStatus, s2 \in HalStatus :
       LET d == ReadModifyWrite(board, SetterRegister(name), s1, s2) IN
       /\ ret' = d.ret
       /\ bus' = d.xfer
       /\ hal_failed' = (hal_failed \/ WriteFailed(d.xfer))
  /\ pc' = next
  /\ calls' = Append(calls, Call(name, arg))
  /\ UNCHANGED <<board, data, pwm, elapsed_ms, iter, rstReads>>

\* line 154, STEVAL_MKI109V3 only
SpiModeSet ==
  ConfigSet("spi_mode_set", "lis2mdl_spi_mode_set", "LIS2MDL_SPI_4_WIRE",
            "device_id_get")

\* variant: the device ID is read but not compared
DeviceIdGet_unchecked ==
  /\ pc = "device_id_get"
  /\ \E v \in WhoAmIValues, st \in HalStatus :
       LET d == lis2mdl_device_id_get(board, st) IN
       /\ whoamI' = v
       /\ ret' = d.ret
       /\ bus' = d.xfer
       /\ pc' = "reset_set"
  /\ calls' = Append(calls, Call("lis2mdl_device_id_get", ""))
  /\ UNCHANGED <<board, rst, reg, poll_data, pwm, elapsed_ms, iter, rstReads,
                 hal_failed>>

\* lines 158-163
DeviceIdGet ==
  /\ pc = "device_id_get"
  /\ \E v \in WhoAmIValues, st \in HalStatus :
       LET d == lis2mdl_device_id_get(board, st) IN
       /\ whoamI' = v
       /\ ret' = d.ret
       /\ bus' = d.xfer
       /\ pc' = IF v # LIS2MDL_ID THEN "device_not_found" ELSE "reset_set"
  /\ calls' = Append(calls, Call("lis2mdl_device_id_get", ""))
  /\ UNCHANGED <<board, rst, reg, poll_data, pwm, elapsed_ms, iter, rstReads,
                 hal_failed>>

\* lines 160-162: while(1) { }
DeviceNotFound ==
  /\ pc = "device_not_found"
  /\ UNCHANGED vars

\* line 166
ResetSet ==
  ConfigSet("reset_set", "lis2mdl_reset_set", "PROPERTY_ENABLE",
            "reset_get")

\* variant: the reset bit is read once and not waited for
ResetGet_noWait ==
  /\ pc = "reset_get"
  /\ \E v \in FlagValues, st \in HalStatus :
       LET d == lis2mdl_reset_get(board, st) IN
       /\ rst' = v
       /\ ret' = d.ret
       /\ bus' = d.xfer
       /\ pc' = "block_data_update_set"
  /\ rstReads' = Bump(rstReads)
  /\ calls' = IF calls[Len(calls)] = Call("lis2mdl_reset_get", "")
              THEN calls ELSE Append(calls, Call("lis2mdl_reset_get", ""))
  /\ UNCHANGED <<board, whoamI, reg, poll_data, pwm, elapsed_ms, iter, hal_failed>>

\* variant: the loop condition is inverted, while (!rst)
ResetGet_inverted ==
  /\ pc = "reset_get"
  /\ \E v \in FlagValues, st \in HalStatus :
       LET d == lis2mdl_reset_get(board, st) IN
       /\ rst' = v
       /\ ret' = d.ret
       /\ bus' = d.xfer
       /\ pc' = IF v = 0 THEN "reset_get" ELSE "block_data_update_set"
  /\ rstReads' = Bump(rstReads)
  /\ calls' = IF calls[Len(calls)] = Call("lis2mdl_reset_get", "")
              THEN calls ELSE Append(calls, Call("lis2mdl_reset_get", ""))
  /\ UNCHANGED <<board, whoamI, reg, poll_data, pwm, elapsed_ms, iter, hal_failed>>

\* lines 167-169: do { lis2mdl_reset_get(&dev_ctx, &rst); } while (rst);
ResetGet ==
  /\ pc = "reset_get"
  /\ \E v \in FlagValues, st \in HalStatus :
       LET d == lis2mdl_reset_get(board, st) IN
       /\ rst' = v
       /\ ret' = d.ret
       /\ bus' = d.xfer
       /\ pc' = IF v # 0 THEN "reset_get" ELSE "block_data_update_set"
  /\ rstReads' = Bump(rstReads)
  /\ calls' = IF calls[Len(calls)] = Call("lis2mdl_reset_get", "")
              THEN calls ELSE Append(calls, Call("lis2mdl_reset_get", ""))
  /\ UNCHANGED <<board, whoamI, reg, poll_data, pwm, elapsed_ms, iter, hal_failed>>

\* line 172
BlockDataUpdateSet ==
  ConfigSet("block_data_update_set", "lis2mdl_block_data_update_set",
            "PROPERTY_ENABLE", "data_rate_set")

\* variant: the set/reset mode call is left out
DataRateSet_skipsMode ==
  ConfigSet("data_rate_set", "lis2mdl_data_rate_set", "LIS2MDL_ODR_10Hz",
            "offset_temp_comp_set")

\* line 175
DataRateSet ==
  ConfigSet("data_rate_set", "lis2mdl_data_rate_set", "LIS2MDL_ODR_10Hz",
            "set_rst_mode_set")

\* line 178
SetRstModeSet ==
  ConfigSet("set_rst_mode_set", "lis2mdl_set_rst_mode_set",
            "LIS2MDL_SENS_OFF_CANC_EVERY_ODR", "offset_temp_comp_set")

\* line 181
OffsetTempCompSet ==
  ConfigSet("offset_temp_comp_set", "lis2mdl_offset_temp_comp_set",
            "PROPERTY_ENABLE", "operating_mode_set")

\* line 184
OperatingModeSet ==
  ConfigSet("operating_mode_set", "lis2mdl_operating_mode_set",
            "LIS2MDL_CONTINUOUS_MODE", "mag_user_offset_set")

\* line 188
MagUserOffsetSet ==
  /\ pc = "mag_user_offset_set"
  /\ \E st \in HalStatus :
       LET d == lis2mdl_mag_user_offset_set(board, mag_offset, st) IN
       /\ ret' = d.ret
       /\ bus' = d.xfer
       /\ hal_failed' = (hal_failed \/ WriteFailed(d.xfer))
  /\ pc' = "mag_data_ready_get"
  /\ calls' = Append(calls, Call("lis2mdl_mag_user_offset_set", "mag_offset"))
  /\ UNCHANGED <<board, data, pwm, elapsed_ms, iter, rstReads>>

\* variant: the flag is read but not tested
MagDataReadyGet_untested ==
  /\ pc = "mag_data_ready_get"
  /\ \E v \in FlagValues, st \in HalStatus :
       LET d == lis2mdl_mag_data_ready_get(board, st) IN
       /\ reg' = v
       /\ ret' = d.ret
       /\ bus' = d.xfer
       /\ pc' = "memset_magnetic"
  /\ iter' = <<"lis2mdl_mag_data_ready_get">>
  /\ UNCHANGED <<board, whoamI, rst, poll_data, pwm, elapsed_ms, calls, rstReads,
                 hal_failed>>

\* lines 196-197
MagDataReadyGet ==
  /\ pc = "mag_data_ready_get"
  /\ \E v \in FlagValues, st \in HalStatus :
       LET d == lis2mdl_mag_data_ready_get(board, st) IN
       /\ reg' = v
       /\ ret' = d.ret
       /\ bus' = d.xfer
       /\ pc' = IF v # 0 THEN "memset_magnetic" ELSE "mag_data_ready_get"
  /\ iter' = <<"lis2mdl_mag_data_ready_get">>
  /\ UNCHANGED <<board, whoamI, rst, poll_data, pwm, elapsed_ms, calls, rstReads,
                 hal_failed>>

\* line 200
MemsetMagnetic ==
  /\ pc = "memset_magnetic"
  /\ data_raw_magnetic' = Zeros(6)
  /\ pc' = "magnetic_raw_get"
  /\ iter' = Append(iter, "memset_magnetic")
  /\ bus' = << >>
  /\ UNCHANGED <<board, whoamI, rst, reg, data_raw_temperature, magnetic_mG,
                 temperature_degC, tx_buffer, sent, pwm, elapsed_ms, ret, calls,
                 rstReads, hal_failed>>

\* lines 201-204
MagneticRawGet ==
  /\ pc = "magnetic_raw_get"
  /\ \E buf \in Buffers(6), st \in HalStatus :
       LET d == lis2mdl_magnetic_raw_get(board, st) IN
       /\ data_raw_magnetic' = buf
       /\ magnetic_mG' =
            <<lis2mdl_from_lsb_to_mgauss(I16(buf[1], buf[2])),
              lis2mdl_from_lsb_to_mgauss(I16(buf[3], buf[4])),
              lis2mdl_from_lsb_to_mgauss(I16(buf[5], buf[6]))>>
       /\ ret' = d.ret
       /\ bus' = d.xfer
  /\ pc' = "tx_magnetic"
  /\ iter' = Append(iter, "lis2mdl_magnetic_raw_get")
  /\ UNCHANGED <<board, whoamI, rst, reg, data_raw_temperature, temperature_degC,
                 tx_buffer, sent, pwm, elapsed_ms, calls, rstReads, hal_failed>>

\* variant: the magnetic line is formatted but not transmitted
TxMagnetic_notSent ==
  /\ pc = "tx_magnetic"
  /\ tx_buffer' = sprintf_magnetic(magnetic_mG)
  /\ pc' = "memset_temperature"
  /\ bus' = << >>
  /\ UNCHANGED <<board, whoamI, rst, reg, data_raw_magnetic, data_raw_temperature,
                 magnetic_mG, temperature_degC, sent, pwm, elapsed_ms, ret, calls,
                 iter, rstReads, hal_failed>>

\* lines 206-208
TxMagnetic ==
  /\ pc = "tx_magnetic"
  /\ tx_buffer' = sprintf_magnetic(magnetic_mG)
  /\ sent' = tx_com(board, tx_buffer')
  /\ pc' = "memset_temperature"
  /\ iter' = Append(iter, "tx_com_magnetic")
  /\ bus' = << >>
  /\ UNCHANGED <<board, whoamI, rst, reg, data_raw_magnetic, data_raw_temperature,
                 magnetic_mG, temperature_degC, pwm, elapsed_ms, ret, calls,
                 rstReads, hal_failed>>

\* line 211
MemsetTemperature ==
  /\ pc = "memset_temperature"
  /\ data_raw_temperature' = Zeros(2)
  /\ pc' = "temperature_raw_get"
  /\ iter' = Append(iter, "memset_temperature")
  /\ bus' = << >>
  /\ UNCHANGED <<board, whoamI, rst, reg, data_raw_magnetic, magnetic_mG,
                 temperature_degC, tx_buffer, sent, pwm, elapsed_ms, ret, calls,
                 rstReads, hal_failed>>

\* lines 212-213
TemperatureRawGet ==
  /\ pc = "temperature_raw_get"
  /\ \E buf \in Buffers(2), st \in HalStatus :
       LET d == lis2mdl_temperature_raw_get(board, st) IN
       /\ data_raw_temperature' = buf
       /\ temperature_degC' = lis2mdl_from_lsb_to_celsius(I16(buf[1], buf[2]))
       /\ ret' = d.ret
       /\ bus' = d.xfer
  /\ pc' = "tx_temperature"
  /\ iter' = Append(iter, "lis2mdl_temperature_raw_get")
  /\ UNCHANGED <<board, whoamI, rst, reg, data_raw_magnetic, magnetic_mG,
                 tx_buffer, sent, pwm, elapsed_ms, calls, rstReads, hal_failed>>

\* variant: the loop head is placed before the offset write
TxTemperature_rewritesOffset ==
  /\ pc = "tx_temperature"
  /\ tx_buffer' = sprintf_temperature(temperature_degC)
  /\ sent' = tx_com(board, tx_buffer')
  /\ pc' = "mag_user_offset_set"
  /\ iter' = Append(iter, "tx_com_temperature")
  /\ bus' = << >>
  /\ UNCHANGED <<board, whoamI, rst, reg, data_raw_magnetic, data_raw_temperature,
                 magnetic_mG, temperature_degC, pwm, elapsed_ms, ret, calls,
                 rstReads, hal_failed>>

\* lines 215-219
TxTemperature ==
  /\ pc = "tx_temperature"
  /\ tx_buffer' = sprintf_temperature(temperature_degC)
  /\ sent' = tx_com(board, tx_buffer')
  /\ pc' = "mag_data_ready_get"
  /\ iter' = Append(iter, "tx_com_temperature")
  /\ bus' = << >>
  /\ UNCHANGED <<board, whoamI, rst, reg, data_raw_magnetic, data_raw_temperature,
                 magnetic_mG, temperature_degC, pwm, elapsed_ms, ret, calls,
                 rstReads, hal_failed>>

Next ==
  \/ PlatformInit
  \/ PlatformDelay
  \/ SpiModeSet
  \/ DeviceIdGet
  \/ DeviceNotFound
  \/ ResetSet
  \/ ResetGet
  \/ BlockDataUpdateSet
  \/ DataRateSet
  \/ SetRstModeSet
  \/ OffsetTempCompSet
  \/ OperatingModeSet
  \/ MagUserOffsetSet
  \/ MagDataReadyGet
  \/ MemsetMagnetic
  \/ MagneticRawGet
  \/ TxMagnetic
  \/ MemsetTemperature
  \/ TemperatureRawGet
  \/ TxTemperature

Spec == Init /\ [][Next]_vars

\* the processor always executes the next statement
FairSpec == Spec /\ WF_vars(Next)

(***************************************************************************)
(* Vocabulary of the properties.                                           *)
(***************************************************************************)
ConfigSeq ==
  <<Call("lis2mdl_reset_set", "PROPERTY_ENABLE"),
    Call("lis2mdl_block_data_update_set", "PROPERTY_ENABLE"),
    Call("lis2mdl_data_rate_set", "LIS2MDL_ODR_10Hz"),
    Call("lis2mdl_set_rst_mode_set", "LIS2MDL_SENS_OFF_CANC_EVERY_ODR"),
    Call("lis2mdl_offset_temp_comp_set", "PROPERTY_ENABLE"),
    Call("lis2mdl_operating_mode_set", "LIS2MDL_CONTINUOUS_MODE"),
    Call("lis2mdl_mag_user_offset_set", "mag_offset")>>

ConfigNames == {ConfigSeq[i][1] : i \in 1..Len(ConfigSeq)}
IsConfigCall(c) == c[1] \in ConfigNames
ConfigCalls(log) == SelectSeq(log, IsConfigCall)

IsPrefix(s, t) == Len(s) <= Len(t) /\ \A i \in 1..Len(s) : s[i] = t[i]

ReadySeq ==
  <<"lis2mdl_mag_data_ready_get", "memset_magnetic", "lis2mdl_magnetic_raw_get",
    "tx_com_magnetic", "memset_temperature", "lis2mdl_temperature_raw_get",
    "tx_com_temperature">>

\* positions of the poll loop, in the order of ReadySeq
PollSeq ==
  <<"mag_data_ready_get", "memset_magnetic", "magnetic_raw_get", "tx_magnetic",
    "memset_temperature", "temperature_raw_get", "tx_temperature">>
PollPcs == {PollSeq[i] : i \in 1..Len(PollSeq)}

\* positions before the device ID has been read
BeforeIdPcs == {"platform_init", "platform_delay", "spi_mode_set", "device_id_get"}

PollReadRegs ==
  {Or8(r, m) : r \in {LIS2MDL_STATUS_REG, LIS2MDL_OUTX_L_REG, LIS2MDL_TEMP_OUT_L_REG},
               m \in {READ_MULTI_I2C, READ_MULTI_SPI}}

OutputSteps ==
  {"lis2mdl_magnetic_raw_get", "tx_com_magnetic", "lis2mdl_temperature_raw_get",
   "tx_com_temperature"}

(***************************************************************************)
(* C1: the seven configuration calls happen in the fixed order, each at    *)
(* most once at any time, and all seven have happened exactly once by the  *)
(* time the poll loop is entered, hence before the first data-ready poll.  *)
(***************************************************************************)
C1_ConfigOrder ==
  /\ IsPrefix(ConfigCalls(calls), ConfigSeq)
  /\ (pc \in PollPcs \/ iter # << >>) => ConfigCalls(calls) = ConfigSeq

C1_Witness ==
  /\ iter = <<"lis2mdl_mag_data_ready_get">>
  /\ whoamI = LIS2MDL_ID
  /\ rstReads >= 1
  /\ ConfigCalls(calls) = ConfigSeq

NotFoundStep ==
  /\ (pc' \notin BeforeIdPcs /\ whoamI' # LIS2MDL_ID) => pc' = "device_not_found"
  /\ pc = "device_not_found" => UNCHANGED vars

(***************************************************************************)
(* C2: once the device ID has been read and differs from LIS2MDL_ID the    *)
(* routine is in the device-not-found loop, and no step taken there        *)
(* changes anything: no call, no bus transaction, no transmission, no      *)
(* other position.                                                         *)
(***************************************************************************)
C2_NotFoundSpins == [][NotFoundStep]_vars

C2_Witness ==
  /\ pc = "device_not_found"
  /\ whoamI # LIS2MDL_ID
  /\ calls[Len(calls)] = Call("lis2mdl_device_id_get", "")

OnlyWhenReadyStep ==
  /\ (pc = "mag_data_ready_get" /\ reg' = 0) =>
       /\ pc' = "mag_data_ready_get"
       /\ iter' = <<"lis2mdl_mag_data_ready_get">>
       /\ UNCHANGED poll_data
  /\ (iter' # iter /\ iter'[Len(iter')] \in OutputSteps) =>
       /\ reg # 0
       /\ reg' = reg
       /\ iter # << >>
       /\ iter[1] = "lis2mdl_mag_data_ready_get"
  /\ (poll_data' # poll_data) => (reg # 0 /\ pc \in PollPcs)

(***************************************************************************)
(* C3: an output read or a transmission happens only in an iteration whose *)
(* data-ready flag was nonzero; an iteration whose flag is zero goes       *)
(* straight back to the poll and leaves the data buffers, the converted    *)
(* values and tx_buffer unchanged.                                         *)
(***************************************************************************)
C3_OnlyWhenReady == [][OnlyWhenReadyStep]_vars

C3_Witness ==
  /\ pc = "mag_data_ready_get"
  /\ reg = 0
  /\ iter = <<"lis2mdl_mag_data_ready_get">>
  /\ tx_buffer.text = "Temperature [degC]:"
  /\ data_raw_magnetic # Zeros(6)

ResetWaitStep ==
  /\ (pc = "reset_get" /\ rst' # 0) =>
       (pc' = "reset_get" /\ ConfigCalls(calls') = ConfigCalls(calls))
  /\ pc = "reset_get" => rstReads' >= 1
  /\ (ConfigCalls(calls') # ConfigCalls(calls) /\ Len(ConfigCalls(calls')) > 1) =>
       (rstReads >= 1 /\ rst = 0)

(***************************************************************************)
(* C4: a read of the reset bit that returns nonzero is followed by another *)
(* read and no configuration call; every configuration call after the      *)
(* reset itself is made with at least one lis2mdl_reset_get done and with  *)
(* rst = 0.                                                                *)
(***************************************************************************)
C4_ResetWait == [][ResetWaitStep]_vars

C4_Witness ==
  /\ pc = "data_rate_set"
  /\ rstReads >= 2
  /\ rst = 0

PollLoopFrameStep ==
  pc \in PollPcs =>
    /\ pc' \in PollPcs
    /\ calls' = calls
    /\ \A i \in 1..Len(bus') :
         bus'[i].dir = "read" /\ bus'[i].reg \in PollReadRegs

(***************************************************************************)
(* C5: a step taken in the poll loop stays in the poll loop, makes no      *)
(* setup call, writes no register, and reads only the status, magnetic     *)
(* output and temperature output registers.                                *)
(***************************************************************************)
C5_PollLoopFrame == [][PollLoopFrameStep]_vars

C5_Witness ==
  /\ pc = "mag_data_ready_get"
  /\ iter = ReadySeq
  /\ sent.line.text = "Temperature [degC]:"

(***************************************************************************)
(* C6: platform_write and platform_read return 0 for every handle and      *)
(* every HAL status, every driver call of the routine returns 0, and a     *)
(* failed configuration write leaves the sequence as it is; the            *)
(* device-not-found loop is entered on an ID mismatch only.                *)
(***************************************************************************)
C6_BusFailureIgnored ==
  /\ \A b \in Boards, h \in Handles, st \in HalStatus :
       /\ platform_write(b, h, LIS2MDL_CFG_REG_A, 1, st).ret = 0
       /\ platform_read(b, h, LIS2MDL_CFG_REG_A, 1, st).ret = 0
       /\ h # SENSOR_BUS(b) /\ h # "hi2c1" =>
            platform_write(b, h, LIS2MDL_CFG_REG_A, 1, st).xfer = << >>
  /\ ret = 0
  /\ IsPrefix(ConfigCalls(calls), ConfigSeq)
  /\ (hal_failed /\ pc \in PollPcs) => ConfigCalls(calls) = ConfigSeq
  /\ pc = "device_not_found" => whoamI # LIS2MDL_ID

C6_Witness ==
  /\ pc = "mag_data_ready_get"
  /\ hal_failed
  /\ ConfigCalls(calls) = ConfigSeq
  /\ \E i \in 1..Len(bus) : bus[i].dir = "write" /\ bus[i].status # "HAL_OK"

(***************************************************************************)
(* C7: platform_init is the first call and platform_delay(BOOT_TIME), 20   *)
(* ms, the second; any bus transaction, and any driver call, comes after   *)
(* both.                                                                   *)
(***************************************************************************)
C7_BootWaitFirst ==
  /\ Len(calls) >= 1 => calls[1] = Call("platform_init", "")
  /\ Len(calls) >= 2 => calls[2] = Call("platform_delay", "BOOT_TIME")
  /\ (bus # << >> \/ Len(calls) >= 3 \/ iter # << >>) =>
       /\ Len(calls) >= 3
       /\ calls[2] = Call("platform_delay", "BOOT_TIME")
       /\ elapsed_ms = 20 + (IF board = "STEVAL_MKI109V3" THEN INIT_DELAY ELSE 0)

C7_Witness ==
  /\ Len(calls) = 3
  /\ bus # << >>
  /\ elapsed_ms >= BOOT_TIME

(***************************************************************************)
(* C8: the steps of an iteration whose flag is nonzero are, in order and   *)
(* once each: zero the magnetic buffer, read it, transmit the magnetic     *)
(* line, zero the temperature buffer, read it, transmit the temperature    *)
(* line; the poll is reached again only with all of them done.             *)
(***************************************************************************)
C8_ReadyIteration ==
  /\ IsPrefix(iter, ReadySeq)
  /\ \A i \in 2..Len(PollSeq) :
       pc = PollSeq[i] => (reg # 0 /\ Len(iter) = i - 1)
  /\ (pc = "mag_data_ready_get" /\ iter # << >>) =>
       \/ reg = 0 /\ iter = <<"lis2mdl_mag_data_ready_get">>
       \/ reg # 0 /\ iter = ReadySeq /\ sent.line.text = "Temperature [degC]:"
                  /\ sent.line = tx_buffer
  /\ pc = "magnetic_raw_get" => data_raw_magnetic = Zeros(6)
  /\ pc = "temperature_raw_get" => data_raw_temperature = Zeros(2)
  /\ pc = "memset_temperature" =>
       (sent.line.text = "Magnetic field [mG]:" /\ sent.line = tx_buffer)

C8_Witness ==
  /\ pc = "mag_data_ready_get"
  /\ reg # 0
  /\ iter = ReadySeq
  /\ data_raw_temperature # Zeros(2)

(***************************************************************************)
(* C9: if the reset bit is ever read back as 0 the routine reaches the     *)
(* poll loop with the offset written; if the data-ready flag is nonzero    *)
(* infinitely often, both lines are transmitted infinitely often; if the   *)
(* reset bit is never read back as 0, no configuration call other than     *)
(* the reset is ever made.                                                 *)
(***************************************************************************)
RstReadZero == rstReads >= 1 /\ rst = 0
FlagReadNonzero == pc = "memset_magnetic" /\ reg # 0
PollEntered == pc \in PollPcs /\ ConfigCalls(calls) = ConfigSeq
MagneticSent == pc = "memset_temperature" /\ sent.line.text = "Magnetic field [mG]:"
TemperatureSent ==
  pc = "mag_data_ready_get" /\ iter = ReadySeq /\ sent.line.text = "Temperature [degC]:"

C9_Progress ==
  /\ (<>RstReadZero) => <>PollEntered
  /\ ([]<>FlagReadNonzero) => ([]<>MagneticSent /\ []<>TemperatureSent)
  /\ ([]~RstReadZero) => [](Len(ConfigCalls(calls)) <= 1)

C9_Witness ==
  /\ TemperatureSent
  /\ rstReads >= 2
  /\ hal_failed = FALSE


====
